---------------------------- MODULE Spec2Model ----------------------------
(***************************************************************************)
(* Model of items/processors.py of django-watermark-images: the LSB        *)
(* steganographic encode/decode (lsb_encode, lsb_decode) and the overlay   *)
(* fitting of add_watermark.                                               *)
(*                                                                         *)
(* Bytes are naturals 0..255, bit streams are sequences of 0/1, a string   *)
(* is the sequence of its code points, an image is a record of its size    *)
(* and its channels in raster order.                                       *)
(***************************************************************************)
EXTENDS Integers, Sequences, FiniteSets

(***************************************************************************)
(* Bounds of the model.                                                    *)
(***************************************************************************)
\* longest payload string, in code points
MaxLen == 2
\* lsb_encode calls applied one after another to the same image
MaxEncodes == 2
\* base and overlay dimensions range over 1..MaxDim (plus the sizes of Scenarios)
MaxDim == 3

VARIABLES
    proto,            \* pickle.DEFAULT_PROTOCOL of the interpreter running the code
    image,            \* the RGB image the session works on (opened at Init)
    op,               \* the last operation performed
    data,             \* payload of the last lsb_encode on image (NoData: none)
    prevLonger,       \* an earlier lsb_encode embedded a longer pickle than the last
    encCount,         \* lsb_encode calls since the image was opened
    encStatus,        \* outcome of the last lsb_encode
    watermark_bytes,  \* lsb_decode: the bytes handed to pickle.load
    result,           \* lsb_decode: what the call returned or raised
    base_size,        \* add_watermark: size of the base image of the session
    fit,              \* add_watermark: inputs and results of the last call
    prevFit           \* add_watermark: overlay and new_size of the call before it

vars == <<proto, image, op, data, prevLonger, encCount, encStatus,
          watermark_bytes, result, base_size, fit, prevFit>>

(***************************************************************************)
(* Helpers on sequences and bits.                                          *)
(***************************************************************************)
RECURSIVE Flatten(_)
Flatten(ss) == IF ss = <<>> THEN <<>> ELSE Head(ss) \o Flatten(Tail(ss))

Zeros(n) == [i \in 1..n |-> 0]

Max(a, b) == IF a >= b THEN a ELSE b

\* Python's a & b on non-negative integers
RECURSIVE BitAnd(_, _)
BitAnd(a, b) ==
    IF a = 0 \/ b = 0 THEN 0
    ELSE (a % 2) * (b % 2) + 2 * BitAnd(a \div 2, b \div 2)

\* faulty variant of BitAndFE: the mask 0xFC, which also clears bit 1
BitAndFC(a) == 4 * (a \div 4)

\* a & 0xFE on a band value (0..255)
BitAndFE(a) == 2 * (a \div 2)

\* Python's a | b on non-negative integers
RECURSIVE BitOr(_, _)
BitOr(a, b) ==
    IF a = 0 THEN b
    ELSE IF b = 0 THEN a
    ELSE Max(a % 2, b % 2) + 2 * BitOr(a \div 2, b \div 2)

\* n as k little-endian bytes (struct.pack("<I", n), "<Q")
RECURSIVE LittleEndian(_, _)
LittleEndian(n, k) ==
    IF k = 0 THEN <<>> ELSE <<n % 256>> \o LittleEndian(n \div 256, k - 1)

\* value of little-endian bytes; -1 when it does not fit the model's integers
RECURSIVE FromLittleEndian(_)
FromLittleEndian(bs) ==
    IF bs = <<>> THEN 0
    ELSE LET rest == FromLittleEndian(Tail(bs))
         IN  IF rest < 0 \/ rest >= 65536 THEN -1 ELSE Head(bs) + 256 * rest

(***************************************************************************)
(* Values, strings and their UTF-8 form.                                   *)
(***************************************************************************)
Str(s) == [t |-> "str", s |-> s]

None == [t |-> "none", s |-> <<>>]

\* the '' of lsb_decode's except branch
EmptyStr == Str(<<>>)

\* code points of the payload alphabet: 'h', 'i' and U+00E9
Alphabet == {104, 105, 233}

RECURSIVE StringsUpTo(_)
StringsUpTo(n) ==
    IF n = 0 THEN {<<>>}
    ELSE LET shorter == StringsUpTo(n - 1)
         IN  shorter \cup {Append(s, c) : s \in shorter, c \in Alphabet}

Payloads == {Str(s) : s \in StringsUpTo(MaxLen)}

\* str.encode('utf-8') of one code point below U+0800
Utf8Char(c) == IF c < 128 THEN <<c>> ELSE <<192 + (c \div 64), 128 + (c % 64)>>

Utf8Encode(s) == Flatten([i \in 1..Len(s) |-> Utf8Char(s[i])])

\* bytes.decode('utf-8') : the code points, or <<-1>> when the bytes are not
\* UTF-8 (UnicodeDecodeError), or <<-2>> for sequences of three bytes and
\* more, which the model does not decode
RECURSIVE Utf8Decode(_)
Utf8Decode(bs) ==
    IF bs = <<>> THEN <<>>
    ELSE LET b == Head(bs)
             one == Utf8Decode(Tail(bs))
         IN  IF b < 128
             THEN IF one # <<>> /\ Head(one) < 0 THEN one ELSE <<b>> \o one
             ELSE IF b < 194 \/ b > 244 THEN <<-1>>
             ELSE IF b >= 224 THEN <<-2>>
             ELSE IF Len(bs) < 2 \/ bs[2] < 128 \/ bs[2] > 191 THEN <<-1>>
             ELSE LET two == Utf8Decode(Tail(Tail(bs)))
                  IN  IF two # <<>> /\ Head(two) < 0 THEN two
                      ELSE <<(b - 192) * 64 + (bs[2] - 128)>> \o two

(***************************************************************************)
(* pickle: dump with the interpreter's default protocol, and load.         *)
(***************************************************************************)
\* pickle.DEFAULT_PROTOCOL: 3 up to Python 3.7, 4 from Python 3.8
Protocols == {3, 4}

\* pickle.HIGHEST_PROTOCOL of the same interpreters
HighestProtocol(p) == IF p = 3 THEN 4 ELSE 5

\* opcodes
PROTO == 128
FRAME == 149
SHORT_BINUNICODE == 140
BINUNICODE == 88
MEMOIZE == 148
BINPUT == 113
PUT == 112
NONE == 78
STOP == 46
NEWLINE == 10

\* every byte that is a pickle opcode (pickletools.opcodes); any other byte is
\* an invalid load key
Opcodes ==
    {40, 41, 46, 48, 49, 50, 66, 67, 70, 71, 73, 74, 75, 76, 77, 78, 80, 81,
     82, 83, 84, 85, 86, 88, 93, 97, 98, 99, 100, 101, 103, 104, 105, 106,
     108, 111, 112, 113, 114, 115, 116, 117, 125} \cup (128..152)

\* dump(data, file=bytes_io); bytes_io.getvalue()
dump(value, p) ==
    LET utf8 == Utf8Encode(value.s)
    IN  IF value.t = "none" THEN <<PROTO, p, NONE, STOP>>
        ELSE IF p = 3
        THEN <<PROTO, 3, BINUNICODE>> \o LittleEndian(Len(utf8), 4) \o utf8
                 \o <<BINPUT, 0, STOP>>
        ELSE LET body == <<SHORT_BINUNICODE, Len(utf8)>> \o utf8
                             \o <<MEMOIZE, STOP>>
             IN  <<PROTO, 4, FRAME>> \o LittleEndian(Len(body), 8) \o body

Value(v) == [kind |-> "value", value |-> v, exc |-> "none"]

Raise(e) == [kind |-> "raise", value |-> None, exc |-> e]

\* an opcode sequence the model does not interpret
Unmodelled == [kind |-> "unmodelled", value |-> None, exc |-> "none"]

Slice(bs, from, n) == SubSeq(bs, from, from + n - 1)

\* a unicode opcode whose argument of n bytes starts at from
LoadUnicode(bs, from, n) ==
    IF n < 0 \/ from + n - 1 > Len(bs) THEN Raise("UnpicklingError")
    ELSE LET s == Utf8Decode(Slice(bs, from, n))
         IN  IF s # <<>> /\ Head(s) = -1 THEN Raise("UnicodeDecodeError")
             ELSE IF s # <<>> /\ Head(s) = -2 THEN Unmodelled
             ELSE Value(Str(s))

\* the unpickler's loop: pos is the next byte to read, stack the value stack
RECURSIVE LoadFrom(_, _, _, _)
LoadFrom(bs, pos, stack, highest) ==
    IF pos > Len(bs) THEN Raise("EOFError")
    ELSE LET b == bs[pos]
             left == Len(bs) - pos
         IN
         CASE b \notin Opcodes \/ (highest < 5 /\ b > FRAME) ->
                  Raise("UnpicklingError")
           [] b = PROTO ->
                  IF left < 1 THEN Raise("UnpicklingError")
                  ELSE IF bs[pos + 1] > highest THEN Raise("ValueError")
                  ELSE LoadFrom(bs, pos + 2, stack, highest)
           [] b = FRAME ->
                  IF left < 8 THEN Raise("UnpicklingError")
                  ELSE IF bs[pos + 8] >= 128 THEN Raise("OverflowError")
                  ELSE LET n == FromLittleEndian(Slice(bs, pos + 1, 8))
                       IN  IF n < 0 \/ n > left - 8
                           THEN Raise("UnpicklingError")
                           ELSE LoadFrom(bs, pos + 9, stack, highest)
           [] b = SHORT_BINUNICODE ->
                  IF left < 1 THEN Raise("UnpicklingError")
                  ELSE LET u == LoadUnicode(bs, pos + 2, bs[pos + 1])
                       IN  IF u.kind # "value" THEN u
                           ELSE LoadFrom(bs, pos + 2 + bs[pos + 1],
                                         Append(stack, u.value), highest)
           [] b = BINUNICODE ->
                  IF left < 4 THEN Raise("UnpicklingError")
                  ELSE LET n == FromLittleEndian(Slice(bs, pos + 1, 4))
                           u == LoadUnicode(bs, pos + 5, n)
                       IN  IF u.kind # "value" THEN u
                           ELSE LoadFrom(bs, pos + 5 + n,
                                         Append(stack, u.value), highest)
           [] b = MEMOIZE ->
                  IF stack = <<>> THEN Raise("UnpicklingError")
                  ELSE LoadFrom(bs, pos + 1, stack, highest)
           [] b = BINPUT ->
                  IF left < 1 \/ stack = <<>> THEN Raise("UnpicklingError")
                  ELSE LoadFrom(bs, pos + 2, stack, highest)
           [] b = PUT ->
                  IF \A i \in (pos + 1)..Len(bs) : bs[i] # NEWLINE
                  THEN Raise("UnpicklingError")
                  ELSE Unmodelled
           [] b = NONE -> LoadFrom(bs, pos + 1, Append(stack, None), highest)
           [] b = STOP ->
                  IF stack = <<>> THEN Raise("UnpicklingError")
                  ELSE Value(stack[Len(stack)])
           [] OTHER -> Unmodelled

\* load(bytes_io)
load(bs, p) == LoadFrom(bs, 1, <<>>, HighestProtocol(p))

(***************************************************************************)
(* numpy's unpackbits and packbits (bitorder 'big').                       *)
(***************************************************************************)
\* faulty variant of ByteBits: the bits of a byte least-significant first
ByteBitsLittle(b) == [i \in 1..8 |-> (b \div (2 ^ (i - 1))) % 2]

ByteBits(b) == [i \in 1..8 |-> (b \div (2 ^ (8 - i))) % 2]

unpackbits(bs) == Flatten([i \in 1..Len(bs) |-> ByteBits(bs[i])])

BitsByte(bits) ==
    bits[1] * 128 + bits[2] * 64 + bits[3] * 32 + bits[4] * 16
        + bits[5] * 8 + bits[6] * 4 + bits[7] * 2 + bits[8]

\* faulty variant of packbits: a trailing partial group of bits is dropped
packbitsDropPartial(bits) ==
    [k \in 1..(Len(bits) \div 8) |-> BitsByte(Slice(bits, 8 * (k - 1) + 1, 8))]

\* packbits pads the last, partial group of bits with zeros
packbits(bits) ==
    LET n == (Len(bits) + 7) \div 8
        padded == bits \o Zeros(8 * n - Len(bits))
    IN  [k \in 1..n |-> BitsByte(Slice(padded, 8 * (k - 1) + 1, 8))]

(***************************************************************************)
(* Images (PIL.Image, mode RGB): the size and the bands in raster order.   *)
(***************************************************************************)
Pixels(size) == size[1] * size[2]

\* convert(..., 'L'): values are clipped to 0..255
ConvertL(v) == IF v < 0 THEN 0 ELSE IF v > 255 THEN 255 ELSE v

\* faulty variant of frombytes: data of another length than the image is refused
frombytesExact(bytes, size) ==
    IF Len(bytes) # Pixels(size)
    THEN [status |-> "ValueError", band |-> <<>>]
    ELSE [status |-> "ok", band |-> bytes]

\* Image.frombytes(data=..., size=..., mode='L'): the raw decoder raises when
\* the data is short of the image and ignores what is in excess of it
frombytes(bytes, size) ==
    IF Len(bytes) < Pixels(size)
    THEN [status |-> "ValueError", band |-> <<>>]
    ELSE [status |-> "ok", band |-> SubSeq(bytes, 1, Pixels(size))]

\* faulty variant of EmbedBand: the watermark bit is or-ed into the band, whose own
\* LSB is not cleared first
EmbedBandOrOnly(a, b) ==
    [i \in 1..Len(a) |-> ConvertL(BitOr(a[i], BitAnd(b[i], 1)))]

\* ImageMath.eval("convert(a&0xFE|b&0x1,'L')", a=red, b=watermark)
EmbedBand(a, b) ==
    [i \in 1..Len(a) |-> ConvertL(BitOr(BitAndFE(a[i]), BitAnd(b[i], 1)))]

\* ImageMath.eval("(a&0x1)*0x01", a=red), then convert('L')
ExtractBand(a) == [i \in 1..Len(a) |-> ConvertL(BitAnd(a[i], 1) * 1)]

\* the zero padding of lsb_encode: [0] * n is empty for n <= 0
PadBits(bits, size) == bits \o Zeros(Pixels(size) - Len(bits))

lsb_encode(value, img, p) ==
    LET data_bytes == dump(value, p)
        data_bits_list == PadBits(unpackbits(data_bytes), img.size)
        watermark == frombytes(data_bits_list, img.size)
    IN  IF watermark.status # "ok"
        THEN [status |-> watermark.status, image |-> img]
        ELSE [status |-> "ok",
              image |-> [size |-> img.size,
                         red |-> EmbedBand(img.red, watermark.band),
                         green |-> img.green,
                         blue |-> img.blue]]

Return(v) == [kind |-> "return", value |-> v, exc |-> "none"]

\* what lsb_decode hands to load
DecodeBytes(img) == packbits(ExtractBand(img.red))

\* try: ... return load(bytes_io)   except UnpicklingError: return ''
lsb_decode(img, p) ==
    LET loaded == load(DecodeBytes(img), p)
    IN  IF loaded.kind = "value" THEN Return(loaded.value)
        ELSE IF loaded.kind = "raise" /\ loaded.exc = "UnpicklingError"
        THEN Return(EmptyStr)
        ELSE loaded

(***************************************************************************)
(* The images a session works on.                                          *)
(***************************************************************************)
\* width and height; 9 and 143 pixels are no multiple of 8, 100 pixels hold a
\* protocol 3 pickle of a two-letter string and not a protocol 4 one
Sizes == {<<3, 3>>, <<10, 10>>, <<13, 11>>}

Patterns == {"white", "ramp"}

BaseImage(size, pattern) ==
    [size |-> size,
     red |-> [i \in 1..Pixels(size) |->
                 IF pattern = "white" THEN 255 ELSE (37 * i + 10) % 256],
     green |-> [i \in 1..Pixels(size) |->
                 IF pattern = "white" THEN 255 ELSE (53 * i + 7) % 256],
     blue |-> [i \in 1..Pixels(size) |->
                 IF pattern = "white" THEN 255 ELSE (211 * i) % 256]]

\* byte strings found in the LSBs of never-watermarked or corrupted images:
\* one for each way pickle.load ends on them
CorruptStrings ==
    {<<NONE>>, <<STOP>>, <<PROTO>>, <<NONE, STOP>>, <<PROTO, 6>>,
     <<PROTO, 3, NONE, STOP>>, <<SHORT_BINUNICODE, 0, STOP>>,
     <<SHORT_BINUNICODE, 1, 255>>, <<SHORT_BINUNICODE, 1, 104, STOP>>,
     <<SHORT_BINUNICODE, 9, 104>>, <<FRAME, 0, 0, 0, 0, 0, 0, 0, 128>>}

\* img with its red LSBs replaced by the bits of bs, then by fill
WithLsbs(img, bs, fill) ==
    LET bits == unpackbits(bs)
    IN  [img EXCEPT !.red =
            [i \in 1..Len(img.red) |->
                2 * (img.red[i] \div 2)
                    + (IF i <= Len(bits) THEN bits[i] ELSE fill)]]

BaseImages == {BaseImage(sz, pt) : sz \in Sizes, pt \in Patterns}

OpenImages ==
    BaseImages \cup
    {WithLsbs(img, bs, fill) :
        img \in BaseImages, bs \in CorruptStrings, fill \in {0, 1}}

(***************************************************************************)
(* State machine of a session on an opened image: encode into it, decode it.*)
(***************************************************************************)
NoData == [t |-> "nodata", s |-> <<>>]

NoResult == [kind |-> "none", value |-> None, exc |-> "none"]

NoFit == [status |-> "none"]

Init ==
    /\ proto \in Protocols
    /\ image \in OpenImages
    /\ op = "open"
    /\ data = NoData
    /\ prevLonger = FALSE
    /\ encCount = 0
    /\ encStatus = "none"
    /\ watermark_bytes = <<>>
    /\ result = NoResult
    /\ base_size = image.size
    /\ fit = NoFit
    /\ prevFit = NoFit

\* image = lsb_encode(value, image)
LsbEncode(value) ==
    /\ encCount < MaxEncodes
    /\ LET r == lsb_encode(value, image, proto)
       IN  /\ image' = r.image
           /\ encStatus' = r.status
    /\ op' = "encode"
    /\ data' = value
    /\ prevLonger' = (data # NoData
                       /\ Len(dump(data, proto)) > Len(dump(value, proto)))
    /\ encCount' = encCount + 1
    /\ watermark_bytes' = <<>>
    /\ result' = NoResult
    /\ UNCHANGED <<proto, base_size, fit, prevFit>>

\* result = lsb_decode(image)
LsbDecode ==
    /\ op # "decode"
    /\ watermark_bytes' = DecodeBytes(image)
    /\ result' = lsb_decode(image, proto)
    /\ op' = "decode"
    /\ UNCHANGED <<proto, image, data, prevLonger, encCount, encStatus,
                   base_size, fit, prevFit>>

Next ==
    \/ \E value \in Payloads : LsbEncode(value)
    \/ LsbDecode

Spec == Init /\ [][Next]_vars

\* the model interprets every pickle the session's images hold
AllModelled == result.kind # "unmodelled"

(***************************************************************************)
(* add_watermark: fitting the overlay to the base image.                   *)
(*                                                                         *)
(* The code computes in double precision.  The model computes the same     *)
(* expressions, in the same order, on exact fractions <<n, d>>, d > 0, in  *)
(* lowest terms.  A double differs from the exact value by a few units in  *)
(* the last place, which changes int() only where the exact value is an    *)
(* integer n: there the double may fall just below n and int() give n - 1. *)
(* The model leaves that case open (slack).                                *)
(***************************************************************************)
RECURSIVE Gcd(_, _)
Gcd(a, b) == IF b = 0 THEN a ELSE Gcd(b, a % b)

Rat(n, d) == LET g == Gcd(n, d) IN <<n \div g, d \div g>>

\* the product, cancelling across before multiplying
RatMul(a, b) ==
    LET g == Gcd(a[1], b[2])
        h == Gcd(b[1], a[2])
    IN  <<(a[1] \div g) * (b[1] \div h), (a[2] \div h) * (b[2] \div g)>>

RatDiv(a, b) == RatMul(a, <<b[2], b[1]>>)

\* a < b: a / b < 1
RatLess(a, b) == LET q == RatDiv(a, b) IN q[1] < q[2]

\* Python's max(a, b)
RatMax(a, b) == IF RatLess(a, b) THEN b ELSE a

\* faulty variant of IntTrunc: round to nearest
IntRound(r, slack) == (2 * r[1] + r[2]) \div (2 * r[2])

\* int(x) of a positive double whose exact value is r
IntTrunc(r, slack) ==
    IF r[2] = 1 /\ slack THEN r[1] - 1 ELSE r[1] \div r[2]

\* the literals 1.071 and 5.419, in thousandths
LandscapeConstant == 1071
PortraitConstant == 5419

\* if temp_watermark > 1: constant_value = 1.071  else: constant_value = 5.419
constant_value(temp_watermark) ==
    IF RatLess(Rat(1, 1), temp_watermark)
    THEN Rat(LandscapeConstant, 1000)
    ELSE Rat(PortraitConstant, 1000)

\* faulty variant of scale_size: the ratio inverted
scale_size_inverted(constant, temp) == RatDiv(constant, temp)

\* scale_size = constant_value * temp
scale_size(constant, temp) == RatMul(constant, temp)

\* watermark_scale = max(image_x / (scale_size * watermark_x),
\*                       image_y / (scale_size * watermark_y))
watermark_scale(base, overlay) ==
    LET temp_image == Rat(base[1], base[2])
        temp_watermark == Rat(overlay[1], overlay[2])
        temp == RatDiv(temp_watermark, temp_image)
        scale == scale_size(constant_value(temp_watermark), temp)
    IN  RatMax(RatDiv(Rat(base[1], 1), RatMul(scale, Rat(overlay[1], 1))),
               RatDiv(Rat(base[2], 1), RatMul(scale, Rat(overlay[2], 1))))

\* new_size = (int(watermark_x * watermark_scale), int(watermark_y * watermark_scale))
new_size(base, overlay, slackX, slackY) ==
    LET scale == watermark_scale(base, overlay)
    IN  <<IntTrunc(RatMul(Rat(overlay[1], 1), scale), slackX),
          IntTrunc(RatMul(Rat(overlay[2], 1), scale), slackY)>>

\* Image.resize(new_size): "height and width must be > 0"
resize(size) == IF size[1] < 1 \/ size[2] < 1 THEN "ValueError" ELSE "ok"

\* convert("L") of an RGBA pixel: ITU-R 601-2 luma, alpha ignored
ConvertRGBAtoL(pixel) ==
    (pixel[1] * 19595 + pixel[2] * 38470 + pixel[3] * 7471 + 32768) \div 65536

\* the cap of the blend mask
AlphaCap == 90

\* faulty variant of MaskPoint: the cap applied as a floor
MaskPointMax(x) == IF x > AlphaCap THEN x ELSE AlphaCap

\* point(lambda x: min(x, 90))
MaskPoint(x) == IF x < AlphaCap THEN x ELSE AlphaCap

\* faulty variant of PasteXY: the margins are not halved
PasteXYNotHalved(base, size) == <<base[1] - size[1], base[2] - size[2]>>

\* ((image_x - watermark_x) // 2, (image_y - watermark_y) // 2)
PasteXY(base, size) ==
    <<(base[1] - size[1]) \div 2, (base[2] - size[2]) \div 2>>

\* the watermark part of add_watermark, on one pixel of the resized overlay
add_watermark(base, overlay, pixel, slackX, slackY) ==
    LET size == new_size(base, overlay, slackX, slackY)
        resized == resize(size)
        luma == ConvertRGBAtoL(pixel)
    IN  IF resized # "ok"
        THEN [status |-> resized, base |-> base, overlay |-> overlay,
              new_size |-> size, xy |-> <<0, 0>>, luma |-> 0, mask |-> 0]
        ELSE [status |-> "ok", base |-> base, overlay |-> overlay,
              new_size |-> size, xy |-> PasteXY(base, size),
              luma |-> luma, mask |-> MaskPoint(luma)]

\* sizes of the scenarios: base 800x600 with overlay 1600x400, and base 21x1
\* with overlays 20x17 and 20x18, where an exact value is an integer
ScenarioBases == {<<800, 600>>, <<21, 1>>}

ScenarioOverlays == {<<1600, 400>>, <<20, 17>>, <<20, 18>>}

BaseSizes == ((1..MaxDim) \X (1..MaxDim)) \cup ScenarioBases

OverlaySizes == ((1..MaxDim) \X (1..MaxDim)) \cup ScenarioOverlays

\* RGBA pixels of the resized overlay
OverlayPixels == {<<89, 89, 89, 255>>, <<91, 91, 91, 128>>, <<255, 0, 0, 10>>}

\* the exact value of watermark_x * watermark_scale, watermark_y * ...
ExactSize(base, overlay) ==
    LET scale == watermark_scale(base, overlay)
    IN  <<RatMul(Rat(overlay[1], 1), scale), RatMul(Rat(overlay[2], 1), scale)>>

\* whether the double of exact value r may fall below it across an integer
Slack(r) == IF r[2] = 1 THEN BOOLEAN ELSE {FALSE}

InitFit ==
    /\ proto = 4
    /\ image = BaseImage(<<3, 3>>, "white")
    /\ op = "open"
    /\ data = NoData
    /\ prevLonger = FALSE
    /\ encCount = 0
    /\ encStatus = "none"
    /\ watermark_bytes = <<>>
    /\ result = NoResult
    /\ base_size \in BaseSizes
    /\ fit = NoFit
    /\ prevFit = NoFit

\* add_watermark(image, watermark, text) on the session's base image; slackX
\* and slackY: the double of an exact integer fell just below it.  The
\* function keeps no state, so every pair of a call and the call before it
\* is reached by two calls, and a session makes no third.
AddWatermark(overlay, pixel) ==
    /\ prevFit = NoFit
    /\ LET exact == ExactSize(base_size, overlay)
       IN  \E slackX \in Slack(exact[1]), slackY \in Slack(exact[2]) :
               fit' = add_watermark(base_size, overlay, pixel, slackX, slackY)
    /\ prevFit' = IF fit = NoFit THEN NoFit
                  ELSE [status |-> fit.status, overlay |-> fit.overlay,
                        new_size |-> fit.new_size]
    /\ op' = "watermark"
    /\ UNCHANGED <<proto, image, data, prevLonger, encCount, encStatus,
                   watermark_bytes, result, base_size>>

NextFit ==
    \E overlay \in OverlaySizes, pixel \in OverlayPixels :
        AddWatermark(overlay, pixel)

SpecFit == InitFit /\ [][NextFit]_vars

(***************************************************************************)
(* Properties of lsb_encode and lsb_decode.                                *)
(***************************************************************************)
\* the serialized payload fits the image: B * 8 <= W * H
Fits(value, img) == 8 * Len(dump(value, proto)) <= Pixels(img.size)

\* bit i (from 1) of a byte string, most significant bit of each byte first
BitOf(bs, i) == (bs[((i - 1) \div 8) + 1] \div (2 ^ (7 - ((i - 1) % 8)))) % 2

\* a step of LsbEncode
EncodeStep == op' = "encode" /\ encCount' = encCount + 1

\* a step of LsbDecode
DecodeStep == op' = "decode" /\ op # "decode"

\* C1: round trip. Decoding an image into which lsb_encode embedded a payload
\* whose pickle has B bytes, B * 8 <= W * H, returns exactly that payload:
\* the encode succeeded and the zero padding after the pickle does not change
\* the value.
C1_RoundTrip ==
    (op = "decode" /\ data # NoData /\ Fits(data, image))
        => (encStatus = "ok" /\ result = Return(data))

\* C1 witness: "hi" was embedded with padding bits to spare and decoded back
C1_Witness ==
    /\ op = "decode"
    /\ data = Str(<<104, 105>>)
    /\ 8 * Len(dump(data, proto)) < Pixels(image.size)
    /\ result = Return(data)

\* C2: non-destructive channels. A step of lsb_encode keeps the size, the
\* green and the blue band, and the upper 7 bits of every red pixel: only
\* the least-significant bit of a red pixel can change.
C2_OnlyRedLsb ==
    [][EncodeStep =>
          /\ image'.size = image.size
          /\ image'.green = image.green
          /\ image'.blue = image.blue
          /\ Len(image'.red) = Len(image.red)
          /\ \A i \in 1..Len(image.red) :
                 image'.red[i] \div 2 = image.red[i] \div 2]_vars

\* C2 witness: an encoded white image, with red LSBs cleared by the encode
\* (254) and red LSBs set (255), its green band still all 255
C2_Witness ==
    /\ op = "encode"
    /\ \E i \in 1..Len(image.red) : image.red[i] = 254 /\ image.green[i] = 255
    /\ \E j \in 1..Len(image.red) : image.red[j] = 255

\* C3: corrupt-input safety. On an image that was never watermarked,
\* whatever failure the deserializer reports on the extracted bytes,
\* lsb_decode returns the empty default and does not raise.
C3_NeverRaises ==
    (op = "decode" /\ data = NoData
        /\ load(watermark_bytes, proto).kind = "raise")
        => result = Return(EmptyStr)

\* C4: payload overflow is silent truncation. When the pickle has more than
\* W * H bits, lsb_encode does not fail, the image keeps its size, and the
\* red LSBs in raster order are the first W * H bits of the pickle, each
\* byte most significant bit first.
C4_SilentTruncation ==
    [][(EncodeStep /\ ~Fits(data', image)) =>
          /\ encStatus' = "ok"
          /\ image'.size = image.size
          /\ Len(image'.red) = Pixels(image.size)
          /\ \A i \in 1..Pixels(image.size) :
                 image'.red[i] % 2 = BitOf(dump(data', proto), i)]_vars

\* C4 witness: a pickle longer than the image's pixels was embedded, and the
\* pixel count is no multiple of 8, so the cut falls inside a byte
C4_Witness ==
    /\ op = "encode"
    /\ encStatus = "ok"
    /\ ~Fits(data, image)
    /\ Pixels(image.size) % 8 # 0

\* pixel i's LSB, and 0 past the last pixel
LsbOrZero(img, i) == IF i <= Len(img.red) THEN img.red[i] % 2 ELSE 0

\* byte k of the bits of img's red LSBs, zero-filled, MSB first
PackedByte(img, k) ==
    LsbOrZero(img, 8 * k - 7) * 128 + LsbOrZero(img, 8 * k - 6) * 64
        + LsbOrZero(img, 8 * k - 5) * 32 + LsbOrZero(img, 8 * k - 4) * 16
        + LsbOrZero(img, 8 * k - 3) * 8 + LsbOrZero(img, 8 * k - 2) * 4
        + LsbOrZero(img, 8 * k - 1) * 2 + LsbOrZero(img, 8 * k)

\* C9 as stated: the bytes handed to the deserializer are the 8-bit groups
\* of the W * H extracted bits, MSB first, a trailing partial group dropped:
\* exactly floor(W * H / 8) bytes.
C9_DropsPartialChunk ==
    op = "decode" =>
        /\ Len(watermark_bytes) = Pixels(image.size) \div 8
        /\ \A k \in 1..Len(watermark_bytes) :
               watermark_bytes[k] = PackedByte(image, k)

\* C9 amended: a trailing partial group is filled with zero bits on the right
\* and kept: exactly ceil(W * H / 8) bytes are handed to the deserializer.
C9_PadsPartialChunk ==
    op = "decode" =>
        /\ Len(watermark_bytes) = (Pixels(image.size) + 7) \div 8
        /\ \A k \in 1..Len(watermark_bytes) :
               watermark_bytes[k] = PackedByte(image, k)

\* C9 witness: W * H is no multiple of 8 and the partial group holds a set bit
C9_Witness ==
    /\ op = "decode"
    /\ Pixels(image.size) % 8 # 0
    /\ watermark_bytes[Len(watermark_bytes)] # 0

\* C10: last writer wins. After two or more lsb_encode calls on the same
\* image, lsb_decode returns the payload of the last call when it fits; and
\* encoding again the payload the image already holds leaves the image as
\* it is.
C10_LastWriterWins ==
    [][/\ (DecodeStep /\ encCount >= 2 /\ Fits(data, image))
              => result' = Return(data)
       /\ (EncodeStep /\ data' = data) => image' = image]_vars

\* C10 witness: decoded after a shorter payload overwrote a longer one
C10_Witness ==
    /\ op = "decode"
    /\ encCount >= 2
    /\ prevLonger
    /\ Fits(data, image)
    /\ result = Return(data)

(***************************************************************************)
(* Properties of add_watermark.                                            *)
(***************************************************************************)
Area(size) == size[1] * size[2]

Landscape(overlay) == overlay[1] > overlay[2]

\* aspect ratio of size a <= aspect ratio of size b
AspectLeq(a, b) == a[1] * b[2] <= b[1] * a[2]

\* C5: alpha cap. Every pixel of the mask the overlay is pasted with is at
\* most 90, and is the source value (the pixel's convert("L") value) where
\* that is below 90: mask = min(source, 90).
C5_AlphaCap ==
    fit.status = "ok" =>
        /\ fit.mask <= 90
        /\ fit.luma < 90 => fit.mask = fit.luma
        /\ fit.luma >= 90 => fit.mask = 90

\* C5 witness: a pixel brighter than the cap was capped
C5_Witness == fit.status = "ok" /\ fit.luma = 91 /\ fit.mask = 90

FitsAndCentred ==
    /\ fit.new_size[1] <= base_size[1]
    /\ fit.status = "ok" =>
           LET left == fit.xy[1]
               right == base_size[1] - fit.new_size[1] - left
           IN  /\ left >= 0
               /\ right - left <= 1
               /\ left - right <= 1

\* C7 as stated: for every landscape overlay and every base, the new width is
\* at most the base's and the overlay is centred horizontally.
C7_LandscapeFits ==
    (fit.status # "none" /\ Landscape(fit.overlay)) => FitsAndCentred

\* C7 amended: so it is for every landscape overlay whose aspect ratio is at
\* least the base's (Wo / Ho >= Wb / Hb).
C7_WideLandscapeFits ==
    (fit.status # "none" /\ Landscape(fit.overlay)
        /\ AspectLeq(base_size, fit.overlay))
        => FitsAndCentred

\* C7 witness: base 800x600, overlay 1600x400, pasted 27 pixels from the left
C7_Witness ==
    /\ fit.status = "ok"
    /\ base_size = <<800, 600>>
    /\ fit.overlay = <<1600, 400>>
    /\ fit.new_size[1] = 746
    /\ fit.xy[1] = 27

\* the reference formula: fitConstant, scaleSize, watermarkScale and the
\* exact values Wo * watermarkScale, Ho * watermarkScale
RefSize(base, overlay) ==
    LET fitConstant == IF overlay[1] > overlay[2]
                       THEN Rat(1071, 1000) ELSE Rat(5419, 1000)
        ratio == RatDiv(Rat(overlay[1], overlay[2]), Rat(base[1], base[2]))
        scaleSize == RatMul(fitConstant, ratio)
        byWidth == RatDiv(Rat(base[1], 1), RatMul(scaleSize, Rat(overlay[1], 1)))
        byHeight == RatDiv(Rat(base[2], 1), RatMul(scaleSize, Rat(overlay[2], 1)))
        watermarkScale == IF RatLess(byWidth, byHeight) THEN byHeight ELSE byWidth
    IN  <<RatMul(Rat(overlay[1], 1), watermarkScale),
          RatMul(Rat(overlay[2], 1), watermarkScale)>>

\* r rounded to the nearest integer
Nearest(r) == (2 * r[1] + r[2]) \div (2 * r[2])

\* n is int() of the double of exact value r: r truncated, and where r is an
\* integer possibly r - 1
Truncated(n, r) ==
    IF r[2] = 1 THEN n \in {r[1] - 1, r[1]} ELSE n = r[1] \div r[2]

\* C8 as stated: new_size is the reference formula's value, each component
\* rounded to the nearest integer.
C8_RoundedReference ==
    fit.status # "none" =>
        LET ref == RefSize(base_size, fit.overlay)
        IN  fit.new_size = <<Nearest(ref[1]), Nearest(ref[2])>>

\* C8 amended: new_size is the reference formula's value (1.071 for Wo > Ho,
\* 5.419 otherwise, a square overlay included), each component truncated
\* toward zero by int().
C8_TruncatedReference ==
    fit.status # "none" =>
        LET ref == RefSize(base_size, fit.overlay)
        IN  /\ Truncated(fit.new_size[1], ref[1])
            /\ Truncated(fit.new_size[2], ref[2])

\* C8 witness: a square overlay, whose width of 196.8 became 196
C8_Witness ==
    /\ fit.status = "ok"
    /\ base_size = <<800, 600>>
    /\ fit.overlay = <<3, 3>>
    /\ fit.new_size = <<196, 196>>

=============================================================================
